---- MODULE Spec2Model ----
(***************************************************************************)
(* State-machine model of src/main.py: the OBD-II DTC reader / live PID    *)
(* poller (main, isotp_request, live_read_loop, the DTC codec and the PID  *)
(* registry).                                                              *)
(*                                                                         *)
(* Time is counted in units of 5 ms, so that a timeout shorter than the    *)
(* 10 ms poll sleep of isotp_request is representable (1 unit). The clock  *)
(* advances in time.sleep, by the time asked for; the other statements     *)
(* take no time.                                                           *)
(* Text is modelled as sequences of one-character strings.                 *)
(***************************************************************************)
EXTENDS Integers, Sequences, FiniteSets, TLC

VARIABLES
    args,            \* parsed command line (argparse namespace)
    pc,              \* position of the single thread of main()
    now,             \* wall clock, time.time(), in 5 ms units
    exit,            \* how the process ended: [code, cause], NoExit while running
    busOpened,       \* can.interface.Bus(...) returned a bus
    shutdowns,       \* number of bus.shutdown() calls executed
    pending,         \* requests the ECU has received and not answered yet
    wire,            \* responses on the bus, not yet read by stack.process()
    rxq,             \* the stack's queue of reassembled responses
    xid,             \* number of isotp_request calls started so far
    x_payload,       \* isotp_request: payload
    x_t0,            \* isotp_request: t0
    x_caller,        \* call site isotp_request returns to
    resp,            \* value returned by the last isotp_request
    polls,           \* loop iterations of the current isotp_request
    dtcs,            \* main: dtcs
    logfile,         \* lines appended to --log-file by log_dtcs
    out,             \* results printed on the console by the DTC path
    pid_specs,       \* main/live_read_loop: pid_specs
    start,           \* live_read_loop: start
    header_written,  \* live_read_loop: header_written
    csv_file,        \* live_read_loop: csv_file ("none", "open", "closed")
    csvBuf,          \* rows written to csv_file and not flushed yet
    csvDisk,         \* rows of csv_file that reached the file
    row_ts,          \* live_read_loop: row_ts
    values_for_csv,  \* live_read_loop: values_for_csv
    idx,             \* live_read_loop: position of the for loop in pid_specs
    exc,             \* exception being propagated ("none" when there is none)
    sent,            \* history: every payload handed to stack.send, in order
    ecuAns,          \* history: the ECU's answer to each exchange (NoData if none)
    hist,            \* history: the last finished isotp_request
    late,            \* history: a response came, or stayed unread, after its exchange ended
    interrupted,     \* history: a user interrupt (SIGINT) was delivered
    sentAtInt,       \* history: Len(sent) when the interrupt was delivered
    tickLog,         \* history: the exchange numbers of the current tick, in order
    ticks,           \* history: number of ticks whose row was printed
    cin,             \* input of the pure-function specifications
    cout             \* output of the pure-function specifications

vars == << args, pc, now, exit, busOpened, shutdowns, pending, wire, rxq, xid,
           x_payload, x_t0, x_caller, resp, polls, dtcs, logfile, out,
           pid_specs, start, header_written, csv_file, csvBuf, csvDisk,
           row_ts, values_for_csv, idx, exc, sent, ecuAns, hist, late,
           interrupted, sentAtInt, tickLog, ticks, cin, cout >>

-----------------------------------------------------------------------------
(* Bounds of the model *)

\* Largest --timeout drawn, in 5 ms units.
MaxTimeout == 3
\* The clock stops here: no sleep runs past it.
MaxTime == 20
\* Requests the ECU may still answer; an older one is never answered.
MaxPending == 1

(* Program constants, in 5 ms units *)

\* time.sleep(0.01) in isotp_request
PollSleep == 2
\* the 0.05 floor of max(0.05, interval) in live_read_loop
MinSleep == 10

NoExit == [code |-> -1, cause |-> "running"]
NoData == << -1 >>
None == << -2 >>

Max(a, b) == IF a >= b THEN a ELSE b

-----------------------------------------------------------------------------
(* Text helpers *)

UpperChars == << "A","B","C","D","E","F","G","H","I","J","K","L","M",
                 "N","O","P","Q","R","S","T","U","V","W","X","Y","Z" >>
LowerChars == << "a","b","c","d","e","f","g","h","i","j","k","l","m",
                 "n","o","p","q","r","s","t","u","v","w","x","y","z" >>
DecChars == << "0","1","2","3","4","5","6","7","8","9" >>
HexUpper == << "0","1","2","3","4","5","6","7","8","9","A","B","C","D","E","F" >>
HexLower == << "0","1","2","3","4","5","6","7","8","9","a","b","c","d","e","f" >>
Whitespace == { " ", "\t", "\n" }

\* str.lower() on one character
LowerChar(c) ==
    IF \E i \in 1..26 : UpperChars[i] = c
    THEN LowerChars[CHOOSE i \in 1..26 : UpperChars[i] = c]
    ELSE c

\* str.lower()
Lower(s) == [i \in 1..Len(s) |-> LowerChar(s[i])]

\* str.strip()
RECURSIVE LStrip(_)
LStrip(s) == IF s # <<>> /\ Head(s) \in Whitespace THEN LStrip(Tail(s)) ELSE s
RECURSIVE RStrip(_)
RStrip(s) ==
    IF s # <<>> /\ s[Len(s)] \in Whitespace
    THEN RStrip(SubSeq(s, 1, Len(s) - 1)) ELSE s
Strip(s) == RStrip(LStrip(s))

\* str.split(','): the pieces between commas, empty pieces included
RECURSIVE SplitFrom(_, _)
SplitFrom(s, cur) ==
    IF s = <<>> THEN << cur >>
    ELSE IF Head(s) = "," THEN << cur >> \o SplitFrom(Tail(s), <<>>)
    ELSE SplitFrom(Tail(s), Append(cur, Head(s)))
Split(s) == SplitFrom(s, <<>>)

\* f"{n}" for an integer 0 <= n <= 99: its decimal digits, no padding
DecStr(n) ==
    IF n < 10 THEN << DecChars[n + 1] >>
    ELSE << DecChars[(n \div 10) + 1], DecChars[(n % 10) + 1] >>

\* upper-case hexadecimal digits of n >= 0, most significant first
RECURSIVE HexStr(_)
HexStr(n) ==
    IF n < 16 THEN << HexUpper[n + 1] >>
    ELSE Append(HexStr(n \div 16), HexUpper[(n % 16) + 1])

\* f"{n:02X}": sign, hexadecimal digits, zero-padded to two characters
Hex02(n) ==
    LET body == IF n < 0 THEN << "-" >> \o HexStr(-n) ELSE HexStr(n)
    IN  IF Len(body) < 2 THEN << "0" >> \o body ELSE body

\* value of one digit character in the given base, -1 when it is none
DigitVal(c, base) ==
    IF \E i \in 1..base : HexUpper[i] = c \/ HexLower[i] = c
    THEN (CHOOSE i \in 1..base : HexUpper[i] = c \/ HexLower[i] = c) - 1
    ELSE -1

RECURSIVE DigitsVal(_, _, _)
DigitsVal(s, base, acc) ==
    IF s = <<>> THEN acc
    ELSE DigitsVal(Tail(s), base, acc * base + DigitVal(Head(s), base))

AllDigits(s, base) ==
    s # <<>> /\ \A i \in 1..Len(s) : DigitVal(s[i], base) >= 0

\* int(text, 0) on an unsigned literal: [ok, val]; ok = FALSE is ValueError.
\* Prefix 0x/0o/0b selects the base; a decimal literal has no leading zero
\* unless it is all zeros. (Underscore separators are not modelled.)
ParseUnsigned(s) ==
    LET pre == IF Len(s) >= 2 THEN Lower(SubSeq(s, 1, 2)) ELSE <<>>
        base == IF pre = << "0", "x" >> THEN 16
                ELSE IF pre = << "0", "o" >> THEN 8
                ELSE IF pre = << "0", "b" >> THEN 2 ELSE 10
        digs == IF base = 10 THEN s ELSE SubSeq(s, 3, Len(s))
    IN  IF ~AllDigits(digs, base) THEN [ok |-> FALSE, val |-> 0]
        ELSE IF base = 10 /\ Len(digs) > 1 /\ Head(digs) = "0"
                /\ DigitsVal(digs, 10, 0) # 0 THEN [ok |-> FALSE, val |-> 0]
        ELSE [ok |-> TRUE, val |-> DigitsVal(digs, base, 0)]

\* int(text, 0): optional sign, then an unsigned literal
ParseInt(s) ==
    IF s # <<>> /\ Head(s) = "-"
    THEN LET r == ParseUnsigned(Tail(s)) IN [ok |-> r.ok, val |-> -r.val]
    ELSE IF s # <<>> /\ Head(s) = "+" THEN ParseUnsigned(Tail(s))
    ELSE ParseUnsigned(s)

-----------------------------------------------------------------------------
(* DTC codec *)

sys_code_map == << "P", "C", "B", "U" >>

\* _decode_dtc_pair(b1, b2): the category letter and the four fields, each
\* rendered by f"{...}" as a decimal number
_decode_dtc_pair(b1, b2) ==
    LET sys_code == sys_code_map[((b1 % 256) \div 64) + 1]
        digit1 == (b1 \div 16) % 4
        digit2 == b1 % 16
        digit3 == (b2 \div 16) % 16
        digit4 == b2 % 16
    IN  << sys_code >> \o DecStr(digit1) \o DecStr(digit2)
                       \o DecStr(digit3) \o DecStr(digit4)

\* first bytes decode_obd_dtc accepts
DtcHeaderOk(b) == b \in { 67, 71 }

\* the loop without its filler test (mutant of DtcPairs)
DtcPairsNoSkip(payload, i) ==
    [ k \in 1..((Len(payload) - i) \div 2) |->
        _decode_dtc_pair(payload[i + 2 * k - 1], payload[i + 2 * k]) ]

\* the loop of decode_obd_dtc over payload, from 0-based offset i
RECURSIVE DtcPairs(_, _)
DtcPairs(payload, i) ==
    IF i >= Len(payload) \/ i + 1 >= Len(payload) THEN <<>>
    ELSE LET b1 == payload[i + 1]
             b2 == payload[i + 2]
         IN  IF b1 = 0 /\ b2 = 0 THEN DtcPairs(payload, i + 2)
             ELSE << _decode_dtc_pair(b1, b2) >> \o DtcPairs(payload, i + 2)

decode_obd_dtc(data_bytes) ==
    IF data_bytes = <<>> \/ ~DtcHeaderOk(data_bytes[1]) THEN <<>>
    ELSE DtcPairs(Tail(data_bytes), 0)

decode_freeze_frame_dtc(data_bytes) ==
    IF data_bytes = <<>> \/ Len(data_bytes) < 4 THEN <<>>
    ELSE IF data_bytes[1] # 66 \/ data_bytes[2] # 2 THEN <<>>
    ELSE IF data_bytes[3] = 0 /\ data_bytes[4] = 0 THEN <<>>
    ELSE << _decode_dtc_pair(data_bytes[3], data_bytes[4]) >>

-----------------------------------------------------------------------------
(* PID registry *)

\* PID_DEFS, in the order of the dictionary literal; fn names the lambda
\* ("degC" stands for the unit string of the two temperatures)
PID_DEFS == <<
    [key |-> << "c","o","o","l","a","n","t" >>, pid |-> 5, fn |-> "a_minus_40", unit |-> "degC"],
    [key |-> << "r","p","m" >>, pid |-> 12, fn |-> "ab_div_4", unit |-> "rpm"],
    [key |-> << "s","p","e","e","d" >>, pid |-> 13, fn |-> "a", unit |-> "km/h"],
    [key |-> << "i","n","t","a","k","e","_","t","e","m","p" >>, pid |-> 15, fn |-> "a_minus_40", unit |-> "degC"],
    [key |-> << "m","a","f" >>, pid |-> 16, fn |-> "ab_div_100", unit |-> "g/s"],
    [key |-> << "t","h","r","o","t","t","l","e" >>, pid |-> 17, fn |-> "a_100_div_255", unit |-> "%"],
    [key |-> << "s","t","f","t","1" >>, pid |-> 6, fn |-> "trim", unit |-> "%"],
    [key |-> << "l","t","f","t","1" >>, pid |-> 7, fn |-> "trim", unit |-> "%"] >>

InPidDefs(key) == \E i \in 1..Len(PID_DEFS) : PID_DEFS[i].key = key
PidDef(key) == PID_DEFS[CHOOSE i \in 1..Len(PID_DEFS) : PID_DEFS[i].key = key]

\* num/den (den > 0) rounded to the nearest integer, ties to even: what
\* f"{val:.2f}" does to val * 100
RoundHalfEven(num, den) ==
    LET q == num \div den
        r == num - q * den
    IN  IF 2 * r > den \/ (2 * r = den /\ q % 2 = 1) THEN q + 1 ELSE q

NoVal == [some |-> FALSE, v |-> 0]
Val(v) == [some |-> TRUE, v |-> v]

\* the decode lambdas of PID_DEFS; a value is kept in hundredths, rounded
\* as the .2f format rounds it
DecodeFn(fn, d) ==
    CASE fn = "a_minus_40" ->
            IF Len(d) >= 1 THEN Val((d[1] - 40) * 100) ELSE NoVal
      [] fn = "ab_div_4" ->
            IF Len(d) >= 2 THEN Val(RoundHalfEven((d[1] * 256 + d[2]) * 100, 4)) ELSE NoVal
      [] fn = "a" ->
            IF Len(d) >= 1 THEN Val(d[1] * 100) ELSE NoVal
      [] fn = "ab_div_100" ->
            IF Len(d) >= 2 THEN Val(d[1] * 256 + d[2]) ELSE NoVal
      [] fn = "a_100_div_255" ->
            IF Len(d) >= 1 THEN Val(RoundHalfEven(d[1] * 10000, 255)) ELSE NoVal
      [] fn = "trim" ->
            IF Len(d) >= 1 THEN Val(RoundHalfEven((d[1] - 128) * 10000, 128)) ELSE NoVal

decode_pid_value(label, raw) ==
    IF InPidDefs(label) THEN DecodeFn(PidDef(label).fn, raw) ELSE NoVal

\* items = [x.strip() for x in pid_list_str.split(',') if x.strip()]
PidItems(pid_list_str) ==
    SelectSeq([i \in 1..Len(Split(pid_list_str)) |-> Strip(Split(pid_list_str)[i])],
              LAMBDA x : x # <<>>)

\* one iteration of the for loop of parse_pid_list: the entries item adds
PidEntry(it) ==
    LET key == Lower(it)
        n == ParseInt(it)
    IN  IF InPidDefs(key)
        THEN << [label |-> key, pid |-> PidDef(key).pid, unit |-> PidDef(key).unit] >>
        ELSE IF n.ok
        THEN << [label |-> << "p","i","d","_","0","x" >> \o Hex02(n.val),
                 pid |-> n.val, unit |-> ""] >>
        ELSE <<>>

RECURSIVE PidEntries(_)
PidEntries(items) ==
    IF items = <<>> THEN <<>> ELSE PidEntry(Head(items)) \o PidEntries(Tail(items))

parse_pid_list(pid_list_str) == PidEntries(PidItems(pid_list_str))

\* bytes([0x01, pid]) raises ValueError unless 0 <= pid <= 255
BytesOk(pid) == pid >= 0 /\ pid <= 255

Falsy(r) == r = None \/ r = <<>>

\* request_pid without the check of the response header (mutant of PidRaw)
PidRawUnchecked(r, pid) ==
    IF Falsy(r) THEN None
    ELSE IF Len(r) < 2 THEN None
    ELSE SubSeq(r, 3, Len(r))

\* request_pid after isotp_request returned r: the raw data, or None
PidRaw(r, pid) ==
    IF Falsy(r) THEN None
    ELSE IF Len(r) < 2 THEN None
    ELSE IF r[1] # 65 \/ r[2] # pid THEN None
    ELSE SubSeq(r, 3, Len(r))

\* The cells of a row: a literal text, a number formatted with .2f (kept in
\* hundredths) followed by its unit, or a timestamp. No cell holds a comma:
\* a label has none (it was split at commas, or is pid_0x..), no unit has.
Text(s) == [k |-> "text", s |-> s, n |-> 0, unit |-> ""]
Num(v, unit) == [k |-> "num", s |-> <<>>, n |-> v, unit |-> unit]
Stamp(t) == [k |-> "ts", s |-> <<>>, n |-> t, unit |-> ""]

NA == Text(<< "N", "A" >>)

\* display, in the for loop of live_read_loop, from what request_pid returned
Display(label, unit, raw) ==
    LET val == IF raw # None THEN decode_pid_value(label, raw) ELSE NoVal
    IN  IF val.some THEN Num(val.v, unit) ELSE NA

\* headers = ['timestamp'] + [lbl for (lbl, _, _) in pid_specs]
CsvHeader(specs) ==
    << Text(<< "t","i","m","e","s","t","a","m","p" >>) >>
        \o [i \in 1..Len(specs) |-> Text(specs[i].label)]

-----------------------------------------------------------------------------
(* Command lines *)

\* --pids values drawn
PidsTwo == << "r","p","m",",","s","p","e","e","d" >>
PidsMixed == << "S","p","e","e","d",","," ","0","x","0","C",",","b","o","g","u","s" >>
PidsWide == << "0","x","1","F","F" >>
PidsNone == << "b","o","g","u","s","," >>
PidArgs == { PidsTwo, PidsMixed, PidsWide, PidsNone }

Timeouts == { 0, 1, MaxTimeout }

\* the options the DTC path reads; the live options keep their defaults
DtcArgs ==
    { [live |-> FALSE, no_scan |-> f.no_scan, clear |-> f.clear,
       pending |-> f.pending, freeze |-> f.freeze, log_file |-> f.log_file,
       csv_file |-> FALSE, pids |-> PidsTwo, interval |-> MinSleep,
       duration |-> 0, timeout |-> t] :
         f \in [no_scan : BOOLEAN, clear : BOOLEAN, pending : BOOLEAN,
                freeze : BOOLEAN, log_file : BOOLEAN],
         t \in Timeouts }

\* the options the live path reads; the DTC options keep their defaults
LiveRun(c, p, i, d, t) ==
    [live |-> TRUE, no_scan |-> FALSE, clear |-> FALSE, pending |-> FALSE,
     freeze |-> FALSE, log_file |-> FALSE,
     csv_file |-> c, pids |-> p, interval |-> i, duration |-> d, timeout |-> t]

\* unlimited sessions with a short interval, bounded sessions with an
\* interval above the 50 ms floor, and sessions whose duration is one poll
\* sleep, reached while the first tick is still querying
LiveArgs ==
    { LiveRun(c, p, 1, 0, t) : c \in BOOLEAN, p \in PidArgs, t \in Timeouts }
    \cup { LiveRun(TRUE, PidsTwo, MinSleep + 1, MinSleep + PollSleep, t) : t \in Timeouts }
    \cup { LiveRun(TRUE, PidsTwo, 1, PollSleep, t) : t \in Timeouts }

-----------------------------------------------------------------------------
(* The transport collaborator: the ECU, the bus and the ISO-TP stack *)

\* what the ECU may answer to a request
EcuAnswers(payload) ==
    CASE payload = << 3 >> ->
            { << 67, 1, 51, 0, 0 >>, << 67, 0, 0 >>, << 71, 1, 51 >> }
      [] payload = << 7 >> -> { << 71, 0, 0 >>, << 67, 1, 51 >> }
      [] payload = << 2, 2 >> -> { << 66, 2, 3, 1 >>, << 66, 2, 0, 0 >> }
      [] payload = << 4 >> -> { << 68 >>, << 127, 4, 34 >> }
      [] OTHER -> { << 65, payload[2], 26, 248 >>, << 127, 1, 18 >> }

InExchange == pc \in { "x_check", "x_sleep" }

RemoveAt(s, i) == SubSeq(s, 1, i - 1) \o SubSeq(s, i + 1, Len(s))

\* the ECU answers one of the requests it holds: the response goes on the
\* bus. The stack reads the bus only in stack.process(), so a response is
\* let arrive just before the while test that precedes it: one that came
\* earlier, between two exchanges or during a sleep, is read by the same
\* stack.process() call.
EcuRespond ==
    /\ pc = "x_check"
    /\ \E i \in 1..Len(pending) : \E data \in EcuAnswers(pending[i].payload) :
          /\ wire' = Append(wire, [xid |-> pending[i].xid, data |-> data])
          /\ pending' = RemoveAt(pending, i)
          /\ ecuAns' = [ecuAns EXCEPT ![pending[i].xid] = data]
          /\ late' = (late \/ ~(InExchange /\ pending[i].xid = xid))
    /\ UNCHANGED << args, pc, now, exit, busOpened, shutdowns, rxq, xid,
                    x_payload, x_t0, x_caller, resp, polls, dtcs, logfile, out,
                    pid_specs, start, header_written, csv_file, csvBuf, csvDisk,
                    row_ts, values_for_csv, idx, exc, sent, hist,
                    interrupted, sentAtInt, tickLog, ticks, cin, cout >>

\* stack.send(payload): the request reaches the ECU
StackSend(q, req) ==
    IF Len(q) >= MaxPending THEN Append(Tail(q), req) ELSE Append(q, req)

-----------------------------------------------------------------------------
(* isotp_request *)

\* the loop condition with the bound included (mutant of TimeLeft)
TimeLeftInclusive(t, t0, timeout) == t - t0 <= timeout

\* the loop condition: time.time() - t0 < timeout
TimeLeft(t, t0, timeout) == t - t0 < timeout

\* a call of isotp_request(stack, payload, timeout) from a call site
Call(payload, caller) ==
    /\ pc' = "x_send"
    /\ x_payload' = payload
    /\ x_caller' = caller

\* return data (a response, or None) to the call site; tag is the number of
\* the exchange whose request the response answers, 0 for None
Return(data, tag) ==
    /\ resp' = data
    /\ hist' = [xid |-> xid, tag |-> tag, timeout |-> args.timeout,
                polls |-> polls, sends |-> Cardinality({ k \in 1..Len(sent) : sent[k].xid = xid })]
    /\ pc' = x_caller

\* stack.send(payload); t0 = time.time()
XSend ==
    /\ pc = "x_send"
    /\ xid' = xid + 1
    /\ sent' = Append(sent, [xid |-> xid + 1, payload |-> x_payload])
    /\ pending' = StackSend(pending, [xid |-> xid + 1, payload |-> x_payload])
    /\ ecuAns' = Append(ecuAns, NoData)
    /\ x_t0' = now
    /\ polls' = 0
    /\ pc' = "x_check"
    /\ UNCHANGED << args, now, exit, busOpened, shutdowns, wire, rxq,
                    x_payload, x_caller, resp, dtcs, logfile, out,
                    pid_specs, start, header_written, csv_file, csvBuf, csvDisk,
                    row_ts, values_for_csv, idx, exc, hist, late,
                    interrupted, sentAtInt, tickLog, ticks, cin, cout >>

\* the while test; when it holds, stack.process() reads the bus; when it
\* fails, return None
XCheck ==
    /\ pc = "x_check"
    /\ IF TimeLeft(now, x_t0, args.timeout)
       THEN /\ rxq' = rxq \o wire
            /\ wire' = <<>>
            /\ polls' = polls + 1
            /\ pc' = "x_sleep"
            /\ UNCHANGED << resp, hist, late >>
       ELSE /\ Return(None, 0)
            /\ late' = (late \/ wire # <<>> \/ rxq # <<>>)
            /\ UNCHANGED << rxq, wire, polls >>
    /\ UNCHANGED << args, now, exit, busOpened, shutdowns, pending, xid,
                    x_payload, x_t0, x_caller, dtcs, logfile, out,
                    pid_specs, start, header_written, csv_file, csvBuf, csvDisk,
                    row_ts, values_for_csv, idx, exc, sent, ecuAns,
                    interrupted, sentAtInt, tickLog, ticks, cin, cout >>

\* time.sleep(0.01); if stack.available(): return stack.recv()
XSleep ==
    /\ pc = "x_sleep"
    /\ now + PollSleep <= MaxTime
    /\ now' = now + PollSleep
    /\ IF rxq # <<>>
       THEN /\ Return(Head(rxq).data, Head(rxq).xid)
            /\ rxq' = Tail(rxq)
       ELSE /\ pc' = "x_check"
            /\ UNCHANGED << resp, hist, rxq >>
    /\ UNCHANGED << args, exit, busOpened, shutdowns, pending, wire, xid,
                    x_payload, x_t0, x_caller, polls, dtcs, logfile, out,
                    pid_specs, start, header_written, csv_file, csvBuf, csvDisk,
                    row_ts, values_for_csv, idx, exc, sent, ecuAns, late,
                    interrupted, sentAtInt, tickLog, ticks, cin, cout >>

-----------------------------------------------------------------------------
(* main: opening the bus *)

Exit(code, cause) ==
    /\ exit' = [code |-> code, cause |-> cause]
    /\ pc' = "done"

\* bus = can.interface.Bus(...); stack = make_stack(...)
OpenBusOk ==
    /\ pc = "start"
    /\ busOpened' = TRUE
    /\ pc' = (IF args.live THEN "live_parse" ELSE "scan")
    /\ UNCHANGED << args, now, exit, shutdowns, pending, wire, rxq, xid,
                    x_payload, x_t0, x_caller, resp, polls, dtcs, logfile, out,
                    pid_specs, start, header_written, csv_file, csvBuf, csvDisk,
                    row_ts, values_for_csv, idx, exc, sent, ecuAns, hist, late,
                    interrupted, sentAtInt, tickLog, ticks, cin, cout >>

\* can.interface.Bus(...) raises: except Exception, sys.exit(1)
OpenBusFail ==
    /\ pc = "start"
    /\ Exit(1, "open_failed")
    /\ UNCHANGED << args, now, busOpened, shutdowns, pending, wire, rxq, xid,
                    x_payload, x_t0, x_caller, resp, polls, dtcs, logfile, out,
                    pid_specs, start, header_written, csv_file, csvBuf, csvDisk,
                    row_ts, values_for_csv, idx, exc, sent, ecuAns, hist, late,
                    interrupted, sentAtInt, tickLog, ticks, cin, cout >>

\* the bus opens and make_stack raises (isotp.Address rejects txid/rxid):
\* the same except clause, sys.exit(1)
MakeStackFail ==
    /\ pc = "start"
    /\ busOpened' = TRUE
    /\ Exit(1, "open_failed")
    /\ UNCHANGED << args, now, shutdowns, pending, wire, rxq, xid,
                    x_payload, x_t0, x_caller, resp, polls, dtcs, logfile, out,
                    pid_specs, start, header_written, csv_file, csvBuf, csvDisk,
                    row_ts, values_for_csv, idx, exc, sent, ecuAns, hist, late,
                    interrupted, sentAtInt, tickLog, ticks, cin, cout >>

-----------------------------------------------------------------------------
(* main: the DTC path *)

tvars == << pending, wire, rxq, ecuAns, late >>
xstate == << xid, x_t0, resp, polls, sent, hist >>
dvars == << dtcs, logfile, out >>
lvars == << pid_specs, start, header_written, csv_file, csvBuf, csvDisk,
            row_ts, values_for_csv, idx, tickLog, ticks >>
ivars == << interrupted, sentAtInt >>
fvars == << cin, cout >>

\* log_dtcs(dtcs, log_file) at time ts: the lines it appends to the file
log_dtcs(d, log_file, ts) ==
    IF d = <<>> \/ ~log_file THEN <<>>
    ELSE << [kind |-> "header", ts |-> ts, codes |-> <<>>, width |-> 0],
            [kind |-> (IF d # <<>> THEN "codes" ELSE "no_codes"), ts |-> 0,
             codes |-> d, width |-> 0],
            [kind |-> "separator", ts |-> 0, codes |-> <<>>, width |-> 40] >>

Printed(kind, codes) == [kind |-> kind, codes |-> codes]

\* if not args.no_scan: resp = isotp_request(stack, bytes([0x03]), timeout)
Scan ==
    /\ pc = "scan"
    /\ IF ~args.no_scan
       THEN Call(<< 3 >>, "m03")
       ELSE pc' = "clear" /\ UNCHANGED << x_payload, x_caller >>
    /\ UNCHANGED << args, now, exit, busOpened, shutdowns, exc,
                    tvars, xstate, dvars, lvars, ivars, fvars >>

\* Mode 03 answered or not: exit 1 without a response, else decode, print
\* and log the stored codes
M03Ret ==
    /\ pc = "m03"
    /\ IF Falsy(resp)
       THEN /\ Exit(1, "no_response")
            /\ UNCHANGED dvars
       ELSE /\ dtcs' = decode_obd_dtc(resp)
            /\ out' = Append(out, Printed("stored", dtcs'))
            /\ logfile' = (IF args.log_file
                           THEN logfile \o log_dtcs(dtcs', args.log_file, now)
                           ELSE logfile)
            /\ pc' = "pending"
            /\ UNCHANGED exit
    /\ UNCHANGED << args, now, busOpened, shutdowns, exc, x_payload, x_caller,
                    tvars, xstate, lvars, ivars, fvars >>

\* if args.pending: resp_p = isotp_request(stack, bytes([0x07]), timeout)
Pending ==
    /\ pc = "pending"
    /\ IF args.pending
       THEN Call(<< 7 >>, "m07")
       ELSE pc' = "freeze" /\ UNCHANGED << x_payload, x_caller >>
    /\ UNCHANGED << args, now, exit, busOpened, shutdowns, exc,
                    tvars, xstate, dvars, lvars, ivars, fvars >>

\* pend = decode_obd_dtc(list(resp_p)) if resp_p else []; print
M07Ret ==
    /\ pc = "m07"
    /\ out' = Append(out, Printed("pending",
                  IF ~Falsy(resp) THEN decode_obd_dtc(resp) ELSE <<>>))
    /\ pc' = "freeze"
    /\ UNCHANGED << args, now, exit, busOpened, shutdowns, exc, x_payload,
                    x_caller, dtcs, logfile, tvars, xstate, lvars, ivars, fvars >>

\* if args.freeze: resp_ff = isotp_request(stack, bytes([0x02, 0x02]), timeout)
Freeze ==
    /\ pc = "freeze"
    /\ IF args.freeze
       THEN Call(<< 2, 2 >>, "m02")
       ELSE pc' = "clear" /\ UNCHANGED << x_payload, x_caller >>
    /\ UNCHANGED << args, now, exit, busOpened, shutdowns, exc,
                    tvars, xstate, dvars, lvars, ivars, fvars >>

\* ff = decode_freeze_frame_dtc(list(resp_ff)) if resp_ff else []; print
M02Ret ==
    /\ pc = "m02"
    /\ out' = Append(out, Printed("freeze",
                  IF ~Falsy(resp) THEN decode_freeze_frame_dtc(resp) ELSE <<>>))
    /\ pc' = "clear"
    /\ UNCHANGED << args, now, exit, busOpened, shutdowns, exc, x_payload,
                    x_caller, dtcs, logfile, tvars, xstate, lvars, ivars, fvars >>

\* if args.clear or args.no_scan: clear when there are codes or --no-scan
Clear ==
    /\ pc = "clear"
    /\ IF args.clear \/ args.no_scan
       THEN IF dtcs # <<>> \/ args.no_scan
            THEN Call(<< 4 >>, "m04") /\ UNCHANGED out
            ELSE /\ out' = Append(out, Printed("nothing_to_clear", <<>>))
                 /\ pc' = "shutdown"
                 /\ UNCHANGED << x_payload, x_caller >>
       ELSE pc' = "shutdown" /\ UNCHANGED << out, x_payload, x_caller >>
    /\ UNCHANGED << args, now, exit, busOpened, shutdowns, exc, dtcs, logfile,
                    tvars, xstate, lvars, ivars, fvars >>

\* the report on resp_clr
M04Ret ==
    /\ pc = "m04"
    /\ out' = Append(out, Printed(
                  IF ~Falsy(resp)
                  THEN (IF resp[1] = 68 THEN "cleared" ELSE "clear_unexpected")
                  ELSE "clear_no_response", <<>>))
    /\ pc' = "shutdown"
    /\ UNCHANGED << args, now, exit, busOpened, shutdowns, exc, x_payload,
                    x_caller, dtcs, logfile, tvars, xstate, lvars, ivars, fvars >>

\* bus.shutdown() at the end of main
Shutdown ==
    /\ pc = "shutdown"
    /\ shutdowns' = shutdowns + 1
    /\ Exit(0, "ok")
    /\ UNCHANGED << args, now, busOpened, exc, x_payload, x_caller,
                    tvars, xstate, dvars, lvars, ivars, fvars >>

-----------------------------------------------------------------------------
(* main: the live path, and live_read_loop *)

\* pid_specs = parse_pid_list(args.pids); sys.exit(2) when it is empty
LiveParse ==
    /\ pc = "live_parse"
    /\ pid_specs' = parse_pid_list(args.pids)
    /\ IF pid_specs' = <<>>
       THEN Exit(2, "no_pid")
       ELSE pc' = "live_start" /\ UNCHANGED exit
    /\ UNCHANGED << args, now, busOpened, shutdowns, exc, x_payload, x_caller,
                    start, header_written, csv_file, csvBuf, csvDisk, row_ts,
                    values_for_csv, idx, tickLog, ticks,
                    tvars, xstate, dvars, ivars, fvars >>

\* live_read_loop, before its try: start, header_written, csv_file
LiveStart ==
    /\ pc = "live_start"
    /\ start' = now
    /\ header_written' = FALSE
    /\ csv_file' = "none"
    /\ pc' = "live_open"
    /\ UNCHANGED << args, now, exit, busOpened, shutdowns, exc, x_payload,
                    x_caller, pid_specs, csvBuf, csvDisk, row_ts,
                    values_for_csv, idx, tickLog, ticks,
                    tvars, xstate, dvars, ivars, fvars >>

\* if csv_path: csv_file = open(csv_path, 'a')
LiveOpen ==
    /\ pc = "live_open"
    /\ csv_file' = (IF args.csv_file THEN "open" ELSE "none")
    /\ pc' = "tick"
    /\ UNCHANGED << args, now, exit, busOpened, shutdowns, exc, x_payload,
                    x_caller, pid_specs, start, header_written, csvBuf, csvDisk,
                    row_ts, values_for_csv, idx, tickLog, ticks,
                    tvars, xstate, dvars, ivars, fvars >>

\* the test without its duration > 0 part (mutant of DurationReached)
DurationReachedAlways(t, t_start, duration) == t - t_start >= duration

\* the test that ends the while loop
DurationReached(t, t_start, duration) == duration > 0 /\ t - t_start >= duration

\* top of the while loop: break, or start a row
Tick ==
    /\ pc = "tick"
    /\ IF DurationReached(now, start, args.duration)
       THEN /\ pc' = "live_finally"
            /\ UNCHANGED << row_ts, values_for_csv, idx, tickLog >>
       ELSE /\ row_ts' = now
            /\ values_for_csv' = <<>>
            /\ idx' = 1
            /\ tickLog' = <<>>
            /\ pc' = "pid"
    /\ UNCHANGED << args, now, exit, busOpened, shutdowns, exc, x_payload,
                    x_caller, pid_specs, start, header_written, csv_file,
                    csvBuf, csvDisk, ticks, tvars, xstate, dvars, ivars, fvars >>

\* whether the for loop over pid_specs has a next element
MorePids(i, specs) == i <= Len(specs)

\* the for loop: request_pid builds bytes([0x01, pid]) (ValueError when pid
\* is no byte) and calls isotp_request; after the last PID the row is printed
Pid ==
    /\ pc = "pid"
    /\ IF MorePids(idx, pid_specs)
       THEN IF BytesOk(pid_specs[idx].pid)
            THEN Call(<< 1, pid_specs[idx].pid >>, "pid_ret") /\ UNCHANGED << exc, ticks >>
            ELSE /\ exc' = "ValueError"
                 /\ pc' = "live_finally"
                 /\ UNCHANGED << x_payload, x_caller, ticks >>
       ELSE /\ ticks' = ticks + 1
            /\ pc' = "csv"
            /\ UNCHANGED << x_payload, x_caller, exc >>
    /\ UNCHANGED << args, now, exit, busOpened, shutdowns, pid_specs, start,
                    header_written, csv_file, csvBuf, csvDisk, row_ts,
                    values_for_csv, idx, tickLog,
                    tvars, xstate, dvars, ivars, fvars >>

\* rest of request_pid and of the for body: check, decode, render
PidRet ==
    /\ pc = "pid_ret"
    /\ values_for_csv' = Append(values_for_csv,
            Display(pid_specs[idx].label, pid_specs[idx].unit,
                    PidRaw(resp, pid_specs[idx].pid)))
    /\ tickLog' = Append(tickLog, xid)
    /\ idx' = idx + 1
    /\ pc' = "pid"
    /\ UNCHANGED << args, now, exit, busOpened, shutdowns, exc, x_payload,
                    x_caller, pid_specs, start, header_written, csv_file,
                    csvBuf, csvDisk, row_ts, ticks,
                    tvars, xstate, dvars, ivars, fvars >>

\* the header written before every data row (mutant of HeaderNeeded)
HeaderAlways(written) == TRUE

\* whether the header row is written before this data row
HeaderNeeded(written) == ~written

\* a data row: [row_ts] + values_for_csv
CsvRow(ts, values) == << Stamp(ts) >> \o values

\* if csv_file: the header row, if it is not written yet
Csv ==
    /\ pc = "csv"
    /\ IF csv_file = "open"
       THEN /\ csvBuf' = csvBuf
                  \o (IF HeaderNeeded(header_written) THEN << CsvHeader(pid_specs) >> ELSE <<>>)
            /\ header_written' = TRUE
            /\ pc' = "csv_row"
       ELSE /\ pc' = "sleep"
            /\ UNCHANGED << csvBuf, header_written >>
    /\ UNCHANGED << args, now, exit, busOpened, shutdowns, exc, x_payload,
                    x_caller, pid_specs, start, csv_file, csvDisk, row_ts,
                    values_for_csv, idx, tickLog, ticks,
                    tvars, xstate, dvars, ivars, fvars >>

\* csv_file.write(','.join([row_ts] + values_for_csv) + '\n')
CsvData ==
    /\ pc = "csv_row"
    /\ csvBuf' = Append(csvBuf, CsvRow(row_ts, values_for_csv))
    /\ pc' = "flush"
    /\ UNCHANGED << args, now, exit, busOpened, shutdowns, exc, x_payload,
                    x_caller, pid_specs, start, header_written, csv_file,
                    csvDisk, row_ts, values_for_csv, idx, tickLog, ticks,
                    tvars, xstate, dvars, ivars, fvars >>

\* csv_file.flush()
Flush ==
    /\ pc = "flush"
    /\ csvDisk' = csvDisk \o csvBuf
    /\ csvBuf' = <<>>
    /\ pc' = "sleep"
    /\ UNCHANGED << args, now, exit, busOpened, shutdowns, exc, x_payload,
                    x_caller, pid_specs, start, header_written, csv_file,
                    row_ts, values_for_csv, idx, tickLog, ticks,
                    tvars, xstate, dvars, ivars, fvars >>

\* time.sleep(max(0.05, interval))
Sleep ==
    /\ pc = "sleep"
    /\ now + Max(MinSleep, args.interval) <= MaxTime
    /\ now' = now + Max(MinSleep, args.interval)
    /\ pc' = "tick"
    /\ UNCHANGED << args, exit, busOpened, shutdowns, exc, x_payload, x_caller,
                    tvars, xstate, dvars, lvars, ivars, fvars >>

\* finally of live_read_loop: if csv_file: csv_file.close()
LiveFinally ==
    /\ pc = "live_finally"
    /\ IF csv_file = "open"
       THEN /\ csv_file' = "closed"
            /\ csvDisk' = csvDisk \o csvBuf
            /\ csvBuf' = <<>>
       ELSE UNCHANGED << csv_file, csvDisk, csvBuf >>
    /\ pc' = "main_except"
    /\ UNCHANGED << args, now, exit, busOpened, shutdowns, exc, x_payload,
                    x_caller, pid_specs, start, header_written, row_ts,
                    values_for_csv, idx, tickLog, ticks,
                    tvars, xstate, dvars, ivars, fvars >>

\* an except clause for another exception (mutant of Handles)
HandlesValueError(e) == e = "ValueError"

\* the except clause of main around live_read_loop
Handles(e) == e = "KeyboardInterrupt"

\* except KeyboardInterrupt: print; any other exception goes on
MainExcept ==
    /\ pc = "main_except"
    /\ exc' = (IF Handles(exc) THEN "none" ELSE exc)
    /\ pc' = "live_shutdown"
    /\ UNCHANGED << args, now, exit, busOpened, shutdowns, x_payload, x_caller,
                    tvars, xstate, dvars, lvars, ivars, fvars >>

\* finally: bus.shutdown(); then return, or the exception ends the process
LiveShutdown ==
    /\ pc = "live_shutdown"
    /\ shutdowns' = shutdowns + 1
    /\ IF exc = "none" THEN Exit(0, "ok") ELSE Exit(1, exc)
    /\ UNCHANGED << args, now, busOpened, exc, x_payload, x_caller,
                    tvars, xstate, dvars, lvars, ivars, fvars >>

-----------------------------------------------------------------------------
(* The user interrupt: SIGINT raises KeyboardInterrupt in the main thread.  *)
(* One interrupt is delivered, while live_read_loop runs and before its     *)
(* cleanup starts.                                                          *)

LiveTryPcs == { "live_open", "tick", "pid", "pid_ret", "csv", "csv_row", "flush", "sleep" }
ExchangePcs == { "x_send", "x_check", "x_sleep" }

\* the statement being executed is inside the try of live_read_loop
InLiveTry == pc \in LiveTryPcs \/ (pc \in ExchangePcs /\ x_caller = "pid_ret")

\* inside the try of live_read_loop: its finally runs next
InterruptLive ==
    /\ ~interrupted
    /\ InLiveTry
    /\ interrupted' = TRUE
    /\ sentAtInt' = Len(sent)
    /\ exc' = "KeyboardInterrupt"
    /\ pc' = "live_finally"
    /\ UNCHANGED << args, now, exit, busOpened, shutdowns, x_payload, x_caller,
                    tvars, xstate, dvars, lvars, fvars >>

\* in live_read_loop before its try: straight to the except clause of main
InterruptBeforeTry ==
    /\ ~interrupted
    /\ pc = "live_start"
    /\ interrupted' = TRUE
    /\ sentAtInt' = Len(sent)
    /\ exc' = "KeyboardInterrupt"
    /\ pc' = "main_except"
    /\ UNCHANGED << args, now, exit, busOpened, shutdowns, x_payload, x_caller,
                    tvars, xstate, dvars, lvars, fvars >>

-----------------------------------------------------------------------------
(* Specification of main *)

Idle ==
    /\ pc = "start"
    /\ now = 0
    /\ exit = NoExit
    /\ busOpened = FALSE
    /\ shutdowns = 0
    /\ pending = <<>> /\ wire = <<>> /\ rxq = <<>>
    /\ xid = 0 /\ x_payload = <<>> /\ x_t0 = 0 /\ x_caller = "none"
    /\ resp = None /\ polls = 0
    /\ dtcs = <<>> /\ logfile = <<>> /\ out = <<>>
    /\ pid_specs = <<>> /\ start = 0 /\ header_written = FALSE
    /\ csv_file = "none" /\ csvBuf = <<>> /\ csvDisk = <<>>
    /\ row_ts = 0 /\ values_for_csv = <<>> /\ idx = 0
    /\ exc = "none"
    /\ sent = <<>> /\ ecuAns = <<>>
    /\ hist = [xid |-> 0, tag |-> 0, timeout |-> 0, polls |-> 0, sends |-> 0]
    /\ late = FALSE
    /\ interrupted = FALSE /\ sentAtInt = 0
    /\ tickLog = <<>> /\ ticks = 0

Init ==
    /\ args \in DtcArgs \cup LiveArgs
    /\ Idle
    /\ cin = <<>> /\ cout = <<>>

Next ==
    \/ EcuRespond
    \/ XSend \/ XCheck \/ XSleep
    \/ OpenBusOk \/ OpenBusFail \/ MakeStackFail
    \/ Scan \/ M03Ret \/ Pending \/ M07Ret \/ Freeze \/ M02Ret
    \/ Clear \/ M04Ret \/ Shutdown
    \/ LiveParse \/ LiveStart \/ LiveOpen \/ Tick \/ Pid \/ PidRet
    \/ Csv \/ CsvData \/ Flush \/ Sleep \/ LiveFinally \/ MainExcept \/ LiveShutdown
    \/ InterruptLive \/ InterruptBeforeTry

Spec == Init /\ [][Next]_vars

-----------------------------------------------------------------------------
(* Specification of the DTC codec alone: every byte pair is decoded *)

Bytes == 0..255

InitCodec ==
    /\ args = LiveRun(FALSE, PidsTwo, 1, 0, 0)
    /\ Idle
    /\ cin \in Bytes \X Bytes
    /\ cout = <<>>

\* cout = _decode_dtc_pair(b1, b2)
DecodePair ==
    /\ cout = <<>>
    /\ cout' = _decode_dtc_pair(cin[1], cin[2])
    /\ UNCHANGED << args, pc, now, exit, busOpened, shutdowns, exc, x_payload,
                    x_caller, cin, tvars, xstate, dvars, lvars, ivars >>

NextCodec == DecodePair

SpecCodec == InitCodec /\ [][NextCodec]_vars

-----------------------------------------------------------------------------
(* decode_obd_dtc alone: one call on a response of up to MaxResp bytes *)

MaxResp == 5

\* the two headers, the filler byte, the bytes of the P0133 example and a
\* byte of another category
ByteSamples == { 0, 1, 51, 67, 71, 193 }

RECURSIVE SeqsUpTo(_, _)
SeqsUpTo(S, n) ==
    IF n = 0 THEN { <<>> }
    ELSE LET shorter == SeqsUpTo(S, n - 1)
         IN  shorter \cup { Append(q, b) : q \in { r \in shorter : Len(r) = n - 1 }, b \in S }

InitDtcList ==
    /\ args = LiveRun(FALSE, PidsTwo, 1, 0, 0)
    /\ Idle
    /\ cin \in SeqsUpTo(ByteSamples, MaxResp)
    /\ cout = <<>>

\* dtcs = decode_obd_dtc(data_bytes); the returned list is kept as the one
\* element of cout, so that an empty list differs from no call yet
DecodeList ==
    /\ cout = <<>>
    /\ cout' = << decode_obd_dtc(cin) >>
    /\ UNCHANGED << args, pc, now, exit, busOpened, shutdowns, exc, x_payload,
                    x_caller, cin, tvars, xstate, dvars, lvars, ivars >>

NextDtcList == DecodeList

SpecDtcList == InitDtcList /\ [][NextDtcList]_vars

-----------------------------------------------------------------------------
(* parse_pid_list alone: one call on a --pids string of up to MaxItems items *)

MaxItems == 2

\* items of a --pids string: registry labels in both cases, literals inside
\* and outside one byte, with a sign, a base prefix or a leading blank, a word
\* that is neither, and an empty item
PidWords ==
    { << "r", "p", "m" >>,
      << "S", "p", "e", "e", "d" >>,
      << " ", "0", "x", "0", "C" >>,
      << "0", "x", "1", "F", "F" >>,
      << "b", "o", "g", "u", "s" >>,
      << "-", "1" >>,
      <<>>,
      << "2", "5", "5" >>,
      << "2", "5", "6" >>,
      << "0", "b", "1", "1" >> }

\* the strings of 1..n items joined by commas
RECURSIVE PidStrings(_)
PidStrings(n) ==
    IF n <= 1 THEN PidWords
    ELSE LET shorter == PidStrings(n - 1)
         IN  shorter \cup { a \o << "," >> \o w : a \in shorter, w \in PidWords }

InitPids ==
    /\ args = LiveRun(FALSE, PidsTwo, 1, 0, 0)
    /\ Idle
    /\ cin \in PidStrings(MaxItems)
    /\ cout = <<>>

\* pid_specs = parse_pid_list(args.pids); the returned list is kept as the
\* one element of cout
ParsePids ==
    /\ cout = <<>>
    /\ cout' = << parse_pid_list(cin) >>
    /\ UNCHANGED << args, pc, now, exit, busOpened, shutdowns, exc, x_payload,
                    x_caller, cin, tvars, xstate, dvars, lvars, ivars >>

NextPids == ParsePids

SpecPids == InitPids /\ [][NextPids]_vars

-----------------------------------------------------------------------------
(* Claims *)

\* C1: on every run in which the bus was opened, bus.shutdown() has been
\* executed exactly once when the process ends.
C1_ShutdownOnce == (pc = "done" /\ busOpened) => shutdowns = 1

DecDigits == { DecChars[i] : i \in 1..10 }

\* C2: for every byte pair other than (0, 0), _decode_dtc_pair returns five
\* characters: the letter selected by the top two bits of b1, then four
\* decimal digits.
C2_FiveChars ==
    (cout # <<>> /\ (cin[1] # 0 \/ cin[2] # 0)) =>
        /\ Len(cout) = 5
        /\ cout[1] = << "P", "C", "B", "U" >>[(cin[1] \div 64) + 1]
        /\ \A i \in 2..5 : cout[i] \in DecDigits

\* C3: the response an isotp_request call returns answers the request that
\* same call sent.
C3_OwnResponse == (hist.xid > 0 /\ hist.tag # 0) => hist.tag = hist.xid

\* C4: stored codes come only from a response starting with 0x43, pending
\* codes only from a response starting with 0x47.
C4_ModeMatch ==
    /\ (pc = "pending" /\ dtcs # <<>>) => resp[1] = 67
    /\ (pc = "freeze" /\ args.pending /\ out[Len(out)].kind = "pending"
            /\ out[Len(out)].codes # <<>>) => resp[1] = 71

\* C5: the process ends with a failure status only for the three fatal
\* conditions: the bus cannot be opened, Mode 03 gets no response, no PID
\* resolves.
C5_OnlyFatalExits ==
    (pc = "done" /\ exit.code # 0) =>
        \/ exit.code = 1 /\ exit.cause \in { "open_failed", "no_response" }
        \/ exit.code = 2 /\ exit.cause = "no_pid"

\* C6: a completed Mode 03 scan with a log file has appended one block:
\* header, the codes or the no-codes text, a 40-character separator.
C6_LogBlock ==
    (pc = "done" /\ exit.cause = "ok" /\ ~args.live /\ ~args.no_scan /\ args.log_file) =>
        /\ Len(logfile) = 3
        /\ logfile[1].kind = "header"
        /\ logfile[2].kind = (IF dtcs # <<>> THEN "codes" ELSE "no_codes")
        /\ logfile[2].codes = dtcs
        /\ logfile[3].kind = "separator" /\ logfile[3].width = 40

\* C7 as stated: an isotp_request with a timeout below one poll sleep
\* returns None.
C7_SubTickNone == (hist.xid > 0 /\ hist.timeout < PollSleep) => hist.tag = 0

\* the last isotp_request has returned and no other has started
Returned == hist.xid > 0 /\ hist.xid = xid /\ pc \notin ExchangePcs

\* C7 as amended: an isotp_request sends once; with timeout 0 it returns
\* None without polling; it polls at most once when the timeout is below
\* one poll sleep, and never more than ceil(timeout / poll sleep) times; it
\* returns None only when nothing was available at its last poll.
C7_BoundedExchange ==
    /\ InExchange => polls * PollSleep < args.timeout + PollSleep
    /\ hist.xid > 0 =>
          /\ hist.sends = 1
          /\ hist.timeout = 0 => (hist.polls = 0 /\ hist.tag = 0)
          /\ hist.timeout < PollSleep => hist.polls <= 1
          /\ hist.polls * PollSleep < hist.timeout + PollSleep
    /\ (Returned /\ hist.tag = 0 /\ hist.polls >= 1) => rxq = <<>>

\* C7 witness: with a timeout below one poll sleep the call polled once and
\* returned the response to its own request.
C7_Witness ==
    /\ Returned
    /\ hist.timeout > 0 /\ hist.timeout < PollSleep
    /\ hist.polls = 1 /\ hist.tag = hist.xid

\* what the ECU answered to exchange x, None when it never answered
Answer(x) == IF ecuAns[x] = NoData THEN None ELSE ecuAns[x]

\* the cell a PID's own answer renders to
OwnCell(spec, x) ==
    LET a == Answer(x)
        ok == a # None /\ Len(a) >= 2 /\ a[1] = 65 /\ a[2] = spec.pid
        raw == IF ok THEN SubSeq(a, 3, Len(a)) ELSE None
    IN  IF raw = None \/ ~InPidDefs(spec.label) THEN NA
        ELSE IF DecodeFn(PidDef(spec.label).fn, raw).some
        THEN Num(DecodeFn(PidDef(spec.label).fn, raw).v, spec.unit)
        ELSE NA

\* C8: in a finished tick in which every request was answered during its
\* own exchange or never, every PID was queried once, in the configured
\* order, a PID that was never answered is rendered NA, and every PID is
\* rendered from its own answer alone.
C8_TickIsolation ==
    (pc = "csv" /\ ~late) =>
        /\ exc = "none"
        /\ Len(tickLog) = Len(pid_specs)
        /\ Len(values_for_csv) = Len(pid_specs)
        /\ \A i \in 1..Len(tickLog) :
              /\ tickLog[i] = tickLog[1] + i - 1
              /\ sent[tickLog[i]].payload = << 1, pid_specs[i].pid >>
              /\ Cardinality({ k \in 1..Len(sent) : sent[k].xid = tickLog[i] }) = 1
              /\ Answer(tickLog[i]) = None => values_for_csv[i] = NA
              /\ values_for_csv[i] = OwnCell(pid_specs[i], tickLog[i])

\* C8 witness: a finished tick whose first PID was never answered and is
\* rendered NA, and whose second PID is rendered with a value.
C8_Witness ==
    /\ pc = "csv" /\ ~late
    /\ Len(values_for_csv) >= 2
    /\ Answer(tickLog[1]) = None /\ values_for_csv[1] = NA
    /\ values_for_csv[2].k = "num"

\* the rows written to the CSV file so far, flushed or not
Written == csvDisk \o csvBuf

\* C9: the rows written in one session are one header row (timestamp, then
\* the labels in request order) followed by one data row per finished
\* tick; every data row has the header's number of columns, its i-th
\* value belonging to the i-th PID; every data row is flushed once written.
C9_CsvRows ==
    /\ Written # <<>> =>
          /\ Len(Written[1]) = Len(pid_specs) + 1
          /\ Written[1][1] = Text(<< "t","i","m","e","s","t","a","m","p" >>)
          /\ \A i \in 1..Len(pid_specs) : Written[1][i + 1] = Text(pid_specs[i].label)
    /\ \A r \in 2..Len(Written) :
          /\ Len(Written[r]) = Len(Written[1])
          /\ Written[r][1].k = "ts"
          /\ \A i \in 1..Len(pid_specs) :
                \/ Written[r][i + 1] = NA
                \/ /\ Written[r][i + 1].k = "num"
                   /\ Written[r][i + 1].unit = pid_specs[i].unit
    /\ (csv_file = "open" /\ (pc \in LiveTryPcs \cup ExchangePcs) /\ pc \notin { "csv", "csv_row", "flush" }) =>
          /\ Len(csvDisk) = (IF ticks = 0 THEN 0 ELSE ticks + 1)
          /\ csvBuf = <<>>
    /\ csv_file = "closed" => csvBuf = <<>>
    /\ csv_file = "none" => Written = <<>>

\* C9 witness: a session that wrote the header and two data rows, one of
\* them holding a value.
C9_Witness ==
    /\ Len(csvDisk) = 3
    /\ \E r \in 2..3 : \E i \in 2..Len(csvDisk[r]) : csvDisk[r][i].k = "num"

\* C10: after a user interrupt during the live loop no request is sent;
\* when main has ended, the CSV file is not left open, the bus was shut
\* down once and main returned normally.
C10_InterruptUnwinds ==
    interrupted =>
        /\ Len(sent) = sentAtInt
        /\ pc \notin ExchangePcs
        /\ pc = "done" =>
              /\ exit = [code |-> 0, cause |-> "ok"]
              /\ csv_file # "open"
              /\ shutdowns = 1

\* C10 witness: main ended after an interrupt that came inside an exchange
\* of a session that had written CSV rows.
C10_Witness ==
    /\ pc = "done" /\ interrupted
    /\ csv_file = "closed" /\ Len(csvDisk) >= 2
    /\ sentAtInt >= 1 /\ hist.xid < xid

\* a tick of live_read_loop is running: from its first query to its sleep
InTick ==
    \/ pc \in { "pid", "pid_ret", "csv", "csv_row", "flush", "sleep" }
    \/ pc \in ExchangePcs /\ x_caller = "pid_ret"

\* number of ticks started so far, the running one included
TicksStarted ==
    IF pc \in { "csv", "csv_row", "flush", "sleep" } THEN ticks ELSE ticks + 1

\* live_read_loop left its while loop with no exception and no interrupt
LoopEndedByItself ==
    /\ args.live /\ pid_specs # <<>>
    /\ pc \in { "live_finally", "main_except", "live_shutdown", "done" }
    /\ exit.cause \in { "running", "ok" }
    /\ exc = "none" /\ ~interrupted

\* C11 as stated: with duration > 0, once the time elapsed since the loop
\* started has reached the duration, no PID request is sent and no row is
\* emitted.
C11_NothingAfterDuration ==
    args.duration > 0 =>
        /\ (pc = "x_check" /\ polls = 0 /\ x_caller = "pid_ret") =>
              x_t0 - start < args.duration
        /\ pc = "csv" => now - start < args.duration

\* C11 as amended: the duration is tested at the top of a tick only. A tick
\* runs only if less than the duration had elapsed when it started; the
\* k-th tick starts no sooner than (k - 1) sleeps after the loop started, so
\* a loop with duration > 0 starts a bounded number of ticks; the loop ends
\* by itself only with duration > 0 and the duration elapsed.
C11_DurationAtTickStart ==
    /\ (InTick /\ args.duration > 0) => row_ts - start < args.duration
    /\ InTick =>
          (TicksStarted - 1) * (IF args.interval > MinSleep THEN args.interval ELSE MinSleep)
              <= row_ts - start
    /\ LoopEndedByItself => (args.duration > 0 /\ now - start >= args.duration)

\* C11 witness: a session with duration > 0 printed a row and ended by
\* itself, with a normal return of main.
C11_Witness ==
    /\ LoopEndedByItself /\ pc = "done"
    /\ args.duration > 0 /\ ticks >= 1
    /\ exit = [code |-> 0, cause |-> "ok"]

\* the complete 2-byte pairs after the header, in payload order, without the
\* (0, 0) pairs, each one decoded; nothing for an empty response or another
\* first byte
PairCodes(data_bytes) ==
    IF data_bytes = <<>> THEN <<>>
    ELSE IF Head(data_bytes) \notin { 67, 71 } THEN <<>>
    ELSE LET pairs == [ k \in 1..((Len(data_bytes) - 1) \div 2) |->
                          << data_bytes[2 * k], data_bytes[2 * k + 1] >> ]
             kept == SelectSeq(pairs, LAMBDA p : p # << 0, 0 >>)
         IN  [ k \in 1..Len(kept) |-> _decode_dtc_pair(kept[k][1], kept[k][2]) ]

\* C12: for every response, decode_obd_dtc returns a list (it never raises):
\* with a first byte 0x43 or 0x47, exactly the codes of the complete 2-byte
\* pairs after the header, in payload order, without the (0x00, 0x00) pairs
\* and without a trailing unpaired byte; the empty list for an empty response
\* or another first byte. [0x43, 0x01, 0x33, 0x00, 0x00] gives ['P0133'] and
\* [0x47, 0x00, 0x00] gives [].
C12_DecodeList ==
    cout # <<>> =>
        /\ Len(cout) = 1
        /\ cout[1] = PairCodes(cin)
        /\ cin = << 67, 1, 51, 0, 0 >> => cout[1] = << << "P", "0", "1", "3", "3" >> >>
        /\ cin = << 71, 0, 0 >> => cout[1] = <<>>
        /\ (cin = <<>> \/ Head(cin) \notin { 67, 71 }) => cout[1] = <<>>

\* C12 witness: the Mode 03 example, a code followed by a filler pair
C12_Witness ==
    /\ cin = << 67, 1, 51, 0, 0 >>
    /\ cout = << << << "P", "0", "1", "3", "3" >> >> >>

\* the items of a --pids string that are a registry label or a numeric literal
Resolvable(pid_list_str) ==
    SelectSeq(PidItems(pid_list_str),
              LAMBDA it : InPidDefs(Lower(it)) \/ ParseInt(it).ok)

\* C13: for every --pids string, parse_pid_list returns one entry per item
\* that is a registry label or a numeric literal, in the order given (the
\* other items are dropped), and every returned pid is a 1-byte identifier in
\* 0..255, so that bytes([0x01, pid]) is a valid 2-byte payload.
C13_PidBytes ==
    cout # <<>> =>
        LET result == cout[1]
            items == Resolvable(cin)
        IN  /\ Len(result) = Len(items)
            /\ \A k \in 1..Len(result) :
                  /\ result[k].pid =
                        IF InPidDefs(Lower(items[k])) THEN PidDef(Lower(items[k])).pid
                        ELSE ParseInt(items[k]).val
                  /\ result[k].pid \in 0..255
                  /\ BytesOk(result[k].pid)

====
